---- MODULE Spec2Model ----
(***************************************************************************)
(* Content-based article recommender (src/content_based.py) as called by   *)
(* the recommendation endpoint (src/recommend.py).                         *)
(*                                                                         *)
(* Numbers.  Embedding components are integers.  A profile vector is the   *)
(* rational vector num/den, kept as the record [num, den].  A cosine       *)
(* similarity c is kept exactly as the record [sgn, num, den] standing for *)
(* the real number sgn * sqrt(num/den), num/den in lowest terms, so that   *)
(* two scores are equal as records iff they are equal as reals and         *)
(* ScoreLess orders them as the reals are ordered.  Floating-point         *)
(* rounding is not modelled.                                               *)
(***************************************************************************)
EXTENDS Integers, Sequences, FiniteSets, TLC

VARIABLES
    embeddings,       \* cb_model.embeddings: row i is a vector
    article_indices,  \* cb_model.article_indices: article_id -> row index
    article_ids,      \* cb_model.article_ids: the table order
    user_profiles,    \* cb_model.user_profiles: user_id -> profile
    df_ratings,       \* the ratings frame last passed to fit, held by the caller
    fitted,           \* whether fit has been called on this recommender
    result,           \* the last recommend call and what it returned
    source,           \* the blobs of the storage container load_data reads
    loader,           \* the attributes of the data_loader singleton
    threads           \* per worker thread: the request it handles and where it stands

vars == <<embeddings, article_indices, article_ids, user_profiles, df_ratings, fitted, result,
          source, loader, threads>>

----------------------------------------------------------------------------
(* Bounds and input universes *)

MaxArticles == 2
MaxRows == 1
MaxN == 2
MaxBatch == 2

\* batch_size = 1000 in recommend
BatchSize == 1000

\* The embedding each article id carries in the embeddings source.
SourceVectors == << <<1, 0>>, <<0, 1>>, <<1, 1>>, <<-1, 0>>, <<0, 0>> >>

ArticleIds == DOMAIN SourceVectors
UserIds == {1, 2}
\* The lowest and the highest rating _prepare_ratings emits.
RatingValues == {1, 3}
NValues == (0 - MaxN)..MaxN

\* One row of ratings_df.
RatingRows == [user_id : UserIds, article_id : ArticleIds, rating : RatingValues]

\* All sequences over S of length at most n.
SeqsUpTo(S, n) == UNION {[1..k -> S] : k \in 0..n}

RatingFrames == SeqsUpTo(RatingRows, MaxRows)

IsInjective(s) == \A i, j \in DOMAIN s : s[i] = s[j] => i = j

\* The orders of article ids an id-keyed embeddings source can produce.
TableOrders == {s \in SeqsUpTo(ArticleIds, MaxArticles) : Len(s) >= 1 /\ IsInjective(s)}

----------------------------------------------------------------------------
(* Arithmetic helpers *)

Min(a, b) == IF a <= b THEN a ELSE b
Max(a, b) == IF a >= b THEN a ELSE b

RECURSIVE GCD(_, _)
GCD(a, b) == IF b = 0 THEN a ELSE GCD(b, a % b)

RECURSIVE DotFrom(_, _, _)
DotFrom(u, v, i) == IF i > Len(u) THEN 0 ELSE u[i] * v[i] + DotFrom(u, v, i + 1)

\* np.dot(u, v)
Dot(u, v) == DotFrom(u, v, 1)

\* np.linalg.norm(v) squared
Norm2(v) == Dot(v, v)

Dim == Len(embeddings[1])
ZeroVector == [i \in 1..Dim |-> 0]
VecAdd(u, v) == [i \in 1..Len(u) |-> u[i] + v[i]]
VecScale(k, v) == [i \in 1..Len(v) |-> k * v[i]]

----------------------------------------------------------------------------
(* Scores *)

ZeroScore == [sgn |-> 0, num |-> 0, den |-> 1]

\* dot(u, v) / (norm(u) * norm(v)) for non-zero u and v
Cosine(u, v) ==
    LET d == Dot(u, v)
        q == Norm2(u) * Norm2(v)
        g == GCD(d * d, q)
    IN  IF d = 0 THEN ZeroScore
        ELSE [sgn |-> IF d > 0 THEN 1 ELSE -1, num |-> (d * d) \div g, den |-> q \div g]

\* a < b as real numbers
ScoreLess(a, b) == a.sgn * a.num * b.den < b.sgn * b.num * a.den

----------------------------------------------------------------------------
(* ContentBasedRecommender.fit *)

\* The user ids of a ratings frame (the groups of groupby('user_id')).
UsersOf(ratings_df) == {ratings_df[k].user_id : k \in DOMAIN ratings_df}

\* article_id in self.article_indices
IsIndexed(article_id) == article_id \in DOMAIN article_indices

\* The loop over the rows of one user's group, rows k..Len(ratings_df):
\* acc is [user_vector, total_weight, article_weights] so far.
RECURSIVE AccumulateRows(_, _, _, _)
AccumulateRows(ratings_df, user_id, k, acc) ==
    IF k > Len(ratings_df) THEN acc
    ELSE LET row == ratings_df[k]
         IN  IF row.user_id # user_id \/ ~IsIndexed(row.article_id)
             THEN AccumulateRows(ratings_df, user_id, k + 1, acc)
             ELSE AccumulateRows(ratings_df, user_id, k + 1,
                    [user_vector |-> VecAdd(acc.user_vector,
                                            VecScale(row.rating, embeddings[article_indices[row.article_id]])),
                     total_weight |-> acc.total_weight + row.rating,
                     article_weights |->
                        [a \in DOMAIN acc.article_weights \cup {row.article_id} |->
                            IF a = row.article_id THEN row.rating ELSE acc.article_weights[a]]])

EmptyWeights == [a \in {} |-> 0]

\* A fit that leaves the weighted sum undivided.
NormalizeSkipped(user_vector, total_weight) == [num |-> user_vector, den |-> 1]

\* user_vector /= total_weight, when total_weight > 0
Normalize(user_vector, total_weight) ==
    IF total_weight > 0 THEN [num |-> user_vector, den |-> total_weight]
    ELSE [num |-> user_vector, den |-> 1]

\* The profile fit stores for one user of the frame.
BuildProfile(ratings_df, user_id) ==
    LET acc == AccumulateRows(ratings_df, user_id, 1,
                  [user_vector |-> ZeroVector, total_weight |-> 0, article_weights |-> EmptyWeights])
    IN  [vector |-> Normalize(acc.user_vector, acc.total_weight),
         article_weights |-> acc.article_weights]

\* A fit that skips the users none of whose articles is indexed.
ProfiledUsersIndexedOnly(ratings_df) ==
    {ratings_df[k].user_id : k \in {k \in DOMAIN ratings_df : IsIndexed(ratings_df[k].article_id)}}

\* The users fit stores a profile for: every group of groupby('user_id').
ProfiledUsers(ratings_df) == UsersOf(ratings_df)

\* self.user_profiles after fit(ratings_df)
FitProfiles(ratings_df) ==
    [u \in DOMAIN user_profiles \cup ProfiledUsers(ratings_df) |->
        IF u \in ProfiledUsers(ratings_df) THEN BuildProfile(ratings_df, u) ELSE user_profiles[u]]

----------------------------------------------------------------------------
(* ContentBasedRecommender.recommend and recommend_low_memory *)

\* set(ratings_df[ratings_df['user_id'] == user_id]['article_id'].unique())
UserArticles(ratings_df, user_id) ==
    {ratings_df[k].article_id : k \in {k \in DOMAIN ratings_df : ratings_df[k].user_id = user_id}}

\* sklearn's cosine_similarity normalises each row with a zero norm replaced
\* by 1, so a zero vector has similarity 0 with everything.
CosineSimilaritySklearn(u, v) ==
    IF Norm2(u) = 0 \/ Norm2(v) = 0 THEN ZeroScore ELSE Cosine(u, v)

\* [aid for aid in s if aid not in excluded]
RECURSIVE FilterOut(_, _)
FilterOut(s, excluded) ==
    IF s = <<>> THEN <<>>
    ELSE IF Head(s) \in excluded THEN FilterOut(Tail(s), excluded)
         ELSE <<Head(s)>> \o FilterOut(Tail(s), excluded)

\* A recommend that appends every score it computed.
KeepScoreAlways(article_id, user_articles) == TRUE

\* recommend's guard before scores.append
KeepScore(article_id, user_articles) == article_id \notin user_articles

\* The id recommend pairs with similarities[j] in the batch starting at i
\* (i 0-based as in the code, j 1-based here: the code's j + 1).
ScoredArticleId(i, j) == article_ids[i + j]

\* The scores one batch appends, entries j..Len(batch_indices).
RECURSIVE BatchAppend(_, _, _, _, _)
BatchAppend(i, j, batch_indices, similarities, user_articles) ==
    IF j > Len(batch_indices) THEN <<>>
    ELSE LET article_id == ScoredArticleId(i, j)
             rest == BatchAppend(i, j + 1, batch_indices, similarities, user_articles)
         IN  IF KeepScore(article_id, user_articles)
             THEN << <<article_id, similarities[j]>> >> \o rest
             ELSE rest

\* The body of the batch loop for the batch starting at i.
BatchScores(i, batch_size, user_vector, user_articles) ==
    LET batch_ids == SubSeq(article_ids, i + 1, Min(i + batch_size, Len(article_ids)))
        kept == FilterOut(batch_ids, user_articles)
        batch_indices == [j \in DOMAIN kept |-> article_indices[kept[j]]]
        similarities == [j \in DOMAIN batch_indices |->
                            CosineSimilaritySklearn(user_vector.num, embeddings[batch_indices[j]])]
    IN  IF batch_indices = <<>> THEN <<>>
        ELSE BatchAppend(i, 1, batch_indices, similarities, user_articles)

\* for i in range(0, len(self.article_ids), batch_size)
RECURSIVE AllBatches(_, _, _, _)
AllBatches(i, batch_size, user_vector, user_articles) ==
    IF i >= Len(article_ids) THEN <<>>
    ELSE BatchScores(i, batch_size, user_vector, user_articles)
            \o AllBatches(i + batch_size, batch_size, user_vector, user_articles)

\* Where x goes in a list sorted by descending score: after every entry
\* whose score is not smaller.
RECURSIVE InsertDesc(_, _)
InsertDesc(x, sorted) ==
    IF sorted = <<>> THEN <<x>>
    ELSE IF ScoreLess(Head(sorted)[2], x[2]) THEN <<x>> \o sorted
         ELSE <<Head(sorted)>> \o InsertDesc(x, Tail(sorted))

RECURSIVE StableSortDesc(_)
StableSortDesc(scores) ==
    IF scores = <<>> THEN <<>>
    ELSE InsertDesc(scores[Len(scores)], StableSortDesc(SubSeq(scores, 1, Len(scores) - 1)))

RECURSIVE Reverse(_)
Reverse(s) == IF s = <<>> THEN <<>> ELSE Reverse(Tail(s)) \o <<Head(s)>>

\* An ascending stable sort read backwards (sorted(scores, key=...)[::-1]):
\* descending, but equal scores come out in reverse order.
SortScoresReversed(scores) == StableSortDesc(Reverse(scores))

\* scores.sort(key=lambda x: x[1], reverse=True): Python's sort is stable,
\* also with reverse=True.
SortScores(scores) == StableSortDesc(scores)

\* scores[:n]: a negative n counts from the end.
SlicePrefix(scores, n) ==
    IF n >= 0 THEN SubSeq(scores, 1, Min(n, Len(scores)))
    ELSE SubSeq(scores, 1, Max(Len(scores) + n, 0))

\* recommend with batch_size as a parameter
RecommendBatched(user_id, ratings_df, n, batch_size) ==
    IF user_id \notin DOMAIN user_profiles THEN <<>>
    ELSE LET user_vector == user_profiles[user_id].vector
             user_articles == UserArticles(ratings_df, user_id)
             scores == AllBatches(0, batch_size, user_vector, user_articles)
         IN  SlicePrefix(SortScores(scores), n)

recommend(user_id, ratings_df, n) == RecommendBatched(user_id, ratings_df, n, BatchSize)

\* The scores the one-at-a-time loop appends, from table position k on.
RECURSIVE LowMemoryScores(_, _, _)
LowMemoryScores(k, user_vector, user_articles) ==
    IF k > Len(article_ids) THEN <<>>
    ELSE LET article_id == article_ids[k]
             article_vector == embeddings[article_indices[article_id]]
             rest == LowMemoryScores(k + 1, user_vector, user_articles)
         IN  IF article_id \in user_articles THEN rest
             ELSE IF Norm2(user_vector.num) > 0 /\ Norm2(article_vector) > 0
                  THEN << <<article_id, Cosine(user_vector.num, article_vector)>> >> \o rest
                  ELSE rest

recommend_low_memory(user_id, ratings_df, n) ==
    IF user_id \notin DOMAIN user_profiles THEN <<>>
    ELSE LET user_vector == user_profiles[user_id].vector
             user_articles == UserArticles(ratings_df, user_id)
             scores == LowMemoryScores(1, user_vector, user_articles)
         IN  SlicePrefix(SortScores(scores), n)

----------------------------------------------------------------------------
(* DataLoader._prepare_ratings *)

MaxClicks == 3

\* The engagement measures (session_size) of the enumerated interactions.
Measures == {0, 1, 3}

\* A session_size cell of clicks.csv: a number, or a missing or non-numeric
\* cell, which pd.to_numeric(errors="coerce") turns into NaN.
NumericCell(m) == [numeric |-> TRUE, value |-> m]
NonNumericCell == [numeric |-> FALSE, value |-> 0]
Cells == {NumericCell(m) : m \in Measures} \cup {NonNumericCell}

ClickArticles == {1, 2}
ClickRows == [user_id : UserIds, article_id : ClickArticles, session_size : Cells]

\* Scenario 1 of the specification: the measures 0,0,1,1,3,7,15,31, spread
\* over two users.
Scenario1Measures == <<0, 0, 1, 1, 3, 7, 15, 31>>
Scenario1Clicks ==
    [k \in DOMAIN Scenario1Measures |->
        [user_id |-> 1 + (k % 2), article_id |-> 1,
         session_size |-> NumericCell(Scenario1Measures[k])]]

ClickFrames == SeqsUpTo(ClickRows, MaxClicks) \cup {Scenario1Clicks}

\* df.dropna(subset=["session_size"]) after the coercion
RECURSIVE DropNa(_)
DropNa(df) ==
    IF df = <<>> THEN <<>>
    ELSE IF Head(df).session_size.numeric THEN <<Head(df)>> \o DropNa(Tail(df))
         ELSE DropNa(Tail(df))

RECURSIVE InsertAsc(_, _)
InsertAsc(x, sorted) ==
    IF sorted = <<>> THEN <<x>>
    ELSE IF x < Head(sorted) THEN <<x>> \o sorted
         ELSE <<Head(sorted)>> \o InsertAsc(x, Tail(sorted))

RECURSIVE SortAsc(_)
SortAsc(values) ==
    IF values = <<>> THEN <<>> ELSE InsertAsc(Head(values), SortAsc(Tail(values)))

RECURSIVE Pow(_, _)
Pow(x, e) == IF e = 0 THEN 1 ELSE x * Pow(x, e - 1)

\* Series.quantile(quarters / 4) of log1p of the measures, with pandas'
\* linear interpolation: at position h = (n - 1) * quarters / 4 of the sorted
\* values, between the values a below and b above h, the result is
\* (1 - k/4) * log1p(a) + (k/4) * log1p(b) with k/4 the fraction of h.  It is
\* kept as [a, b, k].
Quantile(measures, quarters) ==
    LET sorted == SortAsc(measures)
        n == Len(sorted)
        h4 == (n - 1) * quarters
        lo == 1 + (h4 \div 4)
    IN  [a |-> sorted[lo], b |-> sorted[Min(lo + 1, n)], k |-> h4 % 4]

\* np.log1p(m) < q: the thresholds taken exclusive on the low side.
LogBelow(m, q) == Pow(1 + m, 4) < Pow(1 + q.a, 4 - q.k) * Pow(1 + q.b, q.k)

\* np.log1p(m) <= q: 4 * log1p(m) <= (4 - k) * log1p(a) + k * log1p(b),
\* compared exactly on the exponentials.
LogAtMost(m, q) == Pow(1 + m, 4) <= Pow(1 + q.a, 4 - q.k) * Pow(1 + q.b, q.k)

\* lambda x: 1 if x <= q25 else 2 if x <= q75 else 3
RatingOf(m, q25, q75) ==
    IF LogAtMost(m, q25) THEN 1 ELSE IF LogAtMost(m, q75) THEN 2 ELSE 3

\* _prepare_ratings(df_clicks)
PrepareRatings(df_clicks) ==
    LET df == DropNa(df_clicks)
        measures == [k \in DOMAIN df |-> df[k].session_size.value]
    IN  IF df = <<>> THEN <<>>
        ELSE LET q25 == Quantile(measures, 1)
                 q75 == Quantile(measures, 3)
             IN  [k \in DOMAIN df |->
                    [user_id |-> df[k].user_id, article_id |-> df[k].article_id,
                     rating |-> RatingOf(measures[k], q25, q75)]]

----------------------------------------------------------------------------
(* The storage container, the data_loader singleton and the worker threads *)

NoEmbeddings == [shape |-> "dict", ids |-> <<>>, rows |-> <<>>]

\* source: clicks.csv, articles_metadata.csv (its article_id column) and the
\* embeddings pickle.
NoSource == [clicks |-> <<>>, articles |-> <<>>, embeddings |-> NoEmbeddings]

\* An attribute is None, or holds a value.
None == <<>>
Some(x) == <<x>>
ValueOf(attribute) == attribute[1]

\* DataLoader.__init__
NotLoaded ==
    [cb_model |-> None, df_ratings |-> None, df_articles |-> None,
     df_user_stats |-> None, user_ids |-> None]

MaxThreads == 2
Threads == 1..MaxThreads

NoStats == [data_loaded |-> FALSE, total_users |-> 0, total_articles |-> 0, total_ratings |-> 0]
NoResponse == [status |-> 0, out |-> <<>>, stats |-> NoStats]
IdleThread ==
    [handler |-> "none", pc |-> "idle", exception |-> "none", is_loaded |-> FALSE,
     response |-> NoResponse]

\* No container is read and no request is in flight: the recommender is
\* used directly.
LoaderAtRest ==
    /\ source = NoSource
    /\ loader = NotLoaded
    /\ threads = [t \in Threads |-> IdleThread]

----------------------------------------------------------------------------
(* The state machine *)

NoResult == [fn |-> "none", user_id |-> 0, n |-> 0, out |-> <<>>]

\* ContentBasedRecommender(emb_matrix, indices, article_ids) for the table
\* _prepare_embeddings builds from an id-keyed source listing the ids in
\* the order ids.
Constructed(ids) ==
    /\ article_ids = ids
    /\ embeddings = [i \in DOMAIN ids |-> SourceVectors[ids[i]]]
    /\ article_indices = [a \in {ids[i] : i \in DOMAIN ids} |->
                             CHOOSE i \in DOMAIN ids : ids[i] = a]
    /\ user_profiles = [u \in {} |-> 0]
    /\ df_ratings = <<>>
    /\ fitted = FALSE
    /\ result = NoResult

Init == \E ids \in TableOrders : Constructed(ids) /\ LoaderAtRest

\* cb_model.fit(ratings_df); the caller keeps ratings_df (load_data stores it
\* as df_ratings).
Fit(ratings_df) ==
    /\ result.fn = "none"
    /\ user_profiles' = FitProfiles(ratings_df)
    /\ df_ratings' = ratings_df
    /\ fitted' = TRUE
    /\ result' = NoResult
    /\ UNCHANGED <<embeddings, article_indices, article_ids, source, loader, threads>>

\* cb_model.recommend(user_id, df_ratings, n=n), as the endpoint calls it
\* with n = int(req.params.get("n", 5)) unvalidated.
Recommend(user_id, n) ==
    /\ result.fn = "none"
    /\ result' = [fn |-> "recommend", user_id |-> user_id, n |-> n,
                  out |-> recommend(user_id, df_ratings, n)]
    /\ UNCHANGED <<embeddings, article_indices, article_ids, user_profiles, df_ratings, fitted,
                   source, loader, threads>>

RecommendLowMemory(user_id, n) ==
    /\ result.fn = "none"
    /\ result' = [fn |-> "recommend_low_memory", user_id |-> user_id, n |-> n,
                  out |-> recommend_low_memory(user_id, df_ratings, n)]
    /\ UNCHANGED <<embeddings, article_indices, article_ids, user_profiles, df_ratings, fitted,
                   source, loader, threads>>

\* The caller takes the returned list; its next call may start.
Return ==
    /\ result.fn # "none"
    /\ result' = NoResult
    /\ UNCHANGED <<embeddings, article_indices, article_ids, user_profiles, df_ratings, fitted,
                   source, loader, threads>>

\* The recommender as load_data uses it: constructed, fitted once, then
\* serving requests.
Next ==
    \/ \E ratings_df \in RatingFrames : ~fitted /\ Fit(ratings_df)
    \/ \E user_id \in UserIds, n \in NValues : Recommend(user_id, n)
    \/ \E user_id \in UserIds, n \in NValues : RecommendLowMemory(user_id, n)
    \/ Return

Spec == Init /\ [][Next]_vars

\* Scenario 2 of the specification: the table A1..A4 in that order, and the
\* ratings of user U = 1 (A1 rated 3, A2 rated 1).
Scenario2Table == <<1, 2, 3, 4>>
Scenario2Ratings ==
    << [user_id |-> 1, article_id |-> 1, rating |-> 3],
       [user_id |-> 1, article_id |-> 2, rating |-> 1] >>

InitScenario2 == Constructed(Scenario2Table) /\ LoaderAtRest

\* The recommender used directly on the Scenario 2 table, with fit called
\* any number of times on the same object.
NextRefit ==
    \/ \E ratings_df \in RatingFrames \cup {Scenario2Ratings} : Fit(ratings_df)
    \/ \E user_id \in UserIds, n \in NValues \cup {2} : Recommend(user_id, n)
    \/ \E user_id \in UserIds, n \in NValues \cup {2} : RecommendLowMemory(user_id, n)
    \/ Return

SpecRefit == InitScenario2 /\ [][NextRefit]_vars

\* fit on its own: one fit of a freshly constructed recommender, over the
\* tables of Init and the Scenario 2 table, with the frames of the serving
\* specifications and the Scenario 2 ratings preceded or followed by them.
FitFrames ==
    RatingFrames
        \cup {Scenario2Ratings \o f : f \in RatingFrames}
        \cup {f \o Scenario2Ratings : f \in RatingFrames}

InitFit == \E ids \in TableOrders \cup {Scenario2Table} : Constructed(ids) /\ LoaderAtRest

NextFit == \E ratings_df \in FitFrames : ~fitted /\ Fit(ratings_df)

SpecFit == InitFit /\ [][NextFit]_vars

\* _prepare_ratings on its own: no recommender exists; the clicks of the
\* container are drawn from ClickFrames.
PrepareRatingsCall ==
    /\ result.fn = "none"
    /\ result' = [fn |-> "_prepare_ratings", user_id |-> 0, n |-> 0,
                  out |-> PrepareRatings(source.clicks)]
    /\ UNCHANGED <<embeddings, article_indices, article_ids, user_profiles, df_ratings, fitted,
                   source, loader, threads>>

InitRatings ==
    /\ Constructed(<<>>)
    /\ \E df_clicks \in ClickFrames : source = [NoSource EXCEPT !.clicks = df_clicks]
    /\ loader = NotLoaded
    /\ threads = [t \in Threads |-> IdleThread]

NextRatings == PrepareRatingsCall \/ Return

SpecRatings == InitRatings /\ [][NextRatings]_vars

----------------------------------------------------------------------------
(* DataLoader.load_data and the request handlers *)

\* _prepare_embeddings: the ids are the keys of a dict or the index of a
\* DataFrame, and the article_id column of df_articles for a bare matrix;
\* indices = {aid: i for i, aid in enumerate(article_ids)} keeps the last
\* row of an id that occurs twice.  Rows are numbered from 1 here.
PrepareEmbeddings(emb, df_articles) ==
    LET ids == IF emb.shape \in {"dict", "frame"} THEN emb.ids ELSE df_articles
    IN  [article_ids |-> ids,
         matrix |-> emb.rows,
         indices |-> [a \in {ids[i] : i \in DOMAIN ids} |->
                        CHOOSE i \in DOMAIN ids :
                            ids[i] = a /\ \A j \in DOMAIN ids : ids[j] = a => j <= i]]

\* The embeddings blobs and article lists of the enumerated containers: the
\* Scenario 2 table as a dict, a DataFrame whose index holds article 1
\* twice, and a bare matrix aligned to an article list with or without a
\* repeated id.
DictEmbeddings ==
    [shape |-> "dict", ids |-> Scenario2Table,
     rows |-> [i \in DOMAIN Scenario2Table |-> SourceVectors[Scenario2Table[i]]]]
FrameEmbeddings ==
    [shape |-> "frame", ids |-> <<1, 2, 1>>, rows |-> << <<1, 0>>, <<0, 1>>, <<1, 1>> >>]
MatrixEmbeddings ==
    [shape |-> "matrix", ids |-> <<>>, rows |-> << <<1, 0>>, <<0, 1>> >>]

LoaderTables ==
    { <<DictEmbeddings, <<1, 2, 3, 4>> >>, <<FrameEmbeddings, <<1, 2>> >>,
      <<MatrixEmbeddings, <<1, 2>> >>, <<MatrixEmbeddings, <<2, 2>> >> }

\* The clicks of the enumerated containers: those behind the Scenario 2
\* ratings, and two users with a non-numeric cell.
LoaderClicks ==
    { << [user_id |-> 1, article_id |-> 1, session_size |-> NumericCell(3)],
         [user_id |-> 1, article_id |-> 2, session_size |-> NumericCell(0)] >>,
      << [user_id |-> 2, article_id |-> 2, session_size |-> NumericCell(1)],
         [user_id |-> 1, article_id |-> 1, session_size |-> NonNumericCell],
         [user_id |-> 1, article_id |-> 2, session_size |-> NumericCell(3)] >> }

LoaderSources ==
    {[clicks |-> c, articles |-> ea[2], embeddings |-> ea[1]] :
        c \in LoaderClicks, ea \in LoaderTables}

\* The ascending list of the elements of a set of numbers.
RECURSIVE SortedList(_)
SortedList(S) ==
    IF S = {} THEN <<>>
    ELSE LET least == CHOOSE x \in S : \A y \in S : x <= y
         IN  <<least>> \o SortedList(S \ {least})

\* sorted(df_ratings["user_id"].unique().tolist())
SortedUserIds(ratings_df) == SortedList(UsersOf(ratings_df))

\* _calculate_user_stats: per user, in ascending user_id, the number of
\* ratings and their mean (kept exact as num/den; the rounding to two
\* decimals is not modelled).
CalculateUserStats(ratings_df) ==
    LET users == SortedUserIds(ratings_df)
        rows(u) == {k \in DOMAIN ratings_df : ratings_df[k].user_id = u}
        total(u) == LET RECURSIVE Sum(_)
                        Sum(R) == IF R = {} THEN 0
                                  ELSE LET k == CHOOSE x \in R : TRUE
                                       IN  ratings_df[k].rating + Sum(R \ {k})
                    IN  Sum(rows(u))
    IN  [i \in DOMAIN users |->
            [user_id |-> users[i], n |-> Cardinality(rows(users[i])),
             avg_rating |-> [num |-> total(users[i]), den |-> Cardinality(rows(users[i]))]]]

\* The query parameters of the enumerated requests.
RequestUserIds == UserIds \cup {3}
RequestNs == {-1, 5}
RequestLimits == {0, 1}

Response(status, out, stats) == [status |-> status, out |-> out, stats |-> stats]

StorePcs ==
    {"store_cb_model", "store_df_ratings", "store_df_articles", "store_df_user_stats",
     "store_user_ids"}

\* The recommender's variables hold the object load_data constructs at line
\* 95.  Every load of a process reads the same container and so constructs
\* an object with the same fields; they are held from the start, unfitted
\* until a load body has run fit.
InitLoader ==
    \E src \in LoaderSources :
        LET prepared == PrepareEmbeddings(src.embeddings, src.articles)
        IN  /\ source = src
            /\ article_ids = prepared.article_ids
            /\ embeddings = prepared.matrix
            /\ article_indices = prepared.indices
            /\ user_profiles = [u \in {} |-> 0]
            /\ df_ratings = <<>>
            /\ fitted = FALSE
            /\ result = NoResult
            /\ loader = NotLoaded
            /\ threads = [t \in Threads |-> IdleThread]

recommenderVars == <<embeddings, article_indices, article_ids, user_profiles, df_ratings, fitted, result>>

\* A request arrives on an idle thread.  The recommend and users handlers
\* start with data_loader.load_data(); the health handler does not.
Request(t, handler) ==
    /\ threads[t].pc = "idle"
    /\ threads' = [threads EXCEPT ![t] =
                      [IdleThread EXCEPT !.handler = handler,
                                         !.pc = IF handler = "health" THEN "health_check"
                                                ELSE "load_check"]]
    /\ UNCHANGED <<recommenderVars, source, loader>>

\* load_data, line 36: if self.cb_model is not None: return
LoadCheck(t) ==
    /\ threads[t].pc = "load_check"
    /\ threads' = [threads EXCEPT ![t].pc =
                      IF loader.cb_model # None THEN "loaded" ELSE "load_body"]
    /\ UNCHANGED <<recommenderVars, source, loader>>

\* load_data, lines 44-100, running to the end: the blobs are read, the
\* ratings prepared, the recommender constructed and fitted, the statistics
\* computed, all in locals of the call.
LoadBodySucceeds(t) ==
    /\ threads[t].pc = "load_body"
    /\ user_profiles' = FitProfiles(PrepareRatings(source.clicks))
    /\ df_ratings' = PrepareRatings(source.clicks)
    /\ fitted' = TRUE
    /\ threads' = [threads EXCEPT ![t].pc = "store_cb_model"]
    /\ UNCHANGED <<embeddings, article_indices, article_ids, result, source, loader>>

\* load_data, lines 44-100, raising: ValueError without a connection
\* string, another exception for a blob that cannot be read or for lack of
\* memory.  The except clause logs and re-raises.
LoadBodyRaises(t, exception) ==
    /\ threads[t].pc = "load_body"
    /\ threads' = [threads EXCEPT ![t].pc = "raised", ![t].exception = exception]
    /\ UNCHANGED <<recommenderVars, source, loader>>

\* line 103: self.cb_model = cb_model
StoreCbModel(t) ==
    /\ threads[t].pc = "store_cb_model"
    /\ loader' = [loader EXCEPT !.cb_model = Some("ContentBasedRecommender")]
    /\ threads' = [threads EXCEPT ![t].pc = "store_df_ratings"]
    /\ UNCHANGED <<recommenderVars, source>>

\* line 104: self.df_ratings = df_ratings
StoreDfRatings(t) ==
    /\ threads[t].pc = "store_df_ratings"
    /\ loader' = [loader EXCEPT !.df_ratings = Some(df_ratings)]
    /\ threads' = [threads EXCEPT ![t].pc = "store_df_articles"]
    /\ UNCHANGED <<recommenderVars, source>>

\* line 105: self.df_articles = df_articles
StoreDfArticles(t) ==
    /\ threads[t].pc = "store_df_articles"
    /\ loader' = [loader EXCEPT !.df_articles = Some(source.articles)]
    /\ threads' = [threads EXCEPT ![t].pc = "store_df_user_stats"]
    /\ UNCHANGED <<recommenderVars, source>>

\* line 106: self.df_user_stats = df_user_stats
StoreDfUserStats(t) ==
    /\ threads[t].pc = "store_df_user_stats"
    /\ loader' = [loader EXCEPT !.df_user_stats = Some(CalculateUserStats(df_ratings))]
    /\ threads' = [threads EXCEPT ![t].pc = "store_user_ids"]
    /\ UNCHANGED <<recommenderVars, source>>

\* line 107: self.user_ids = sorted(df_ratings["user_id"].unique().tolist())
StoreUserIds(t) ==
    /\ threads[t].pc = "store_user_ids"
    /\ loader' = [loader EXCEPT !.user_ids = Some(SortedUserIds(df_ratings))]
    /\ threads' = [threads EXCEPT ![t].pc = "loaded"]
    /\ UNCHANGED <<recommenderVars, source>>

\* line 107 raising inside the try: sorted() raises TypeError on a user_id
\* column that read_csv left with values of unlike types, and building the
\* list can raise MemoryError.
StoreUserIdsRaises(t) ==
    /\ threads[t].pc = "store_user_ids"
    /\ threads' = [threads EXCEPT ![t].pc = "raised", ![t].exception = "Exception"]
    /\ UNCHANGED <<recommenderVars, source, loader>>

\* The exception leaves load_data and reaches the handler: recommend.py
\* answers 400 to a ValueError and 500 to anything else, users.py answers
\* 503.
LoadRaised(t) ==
    /\ threads[t].pc = "raised"
    /\ threads' = [threads EXCEPT
          ![t].pc = "respond",
          ![t].response =
              Response(IF threads[t].handler = "users" THEN 503
                       ELSE IF threads[t].exception = "ValueError" THEN 400 ELSE 500,
                       <<>>, NoStats)]
    /\ UNCHANGED <<recommenderVars, source, loader>>

\* recommend.py, lines 24-79, after load_data returned: 400 without
\* user_id; `user_id not in data_loader.user_ids` raises TypeError on None
\* (500); 404 for an unknown user; else the list cb_model.recommend returns
\* for data_loader.df_ratings.
ServeRecommend(t, has_user_id, user_id, n) ==
    /\ threads[t].pc = "loaded"
    /\ threads[t].handler = "recommend"
    /\ threads' = [threads EXCEPT
          ![t].pc = "respond",
          ![t].response =
              IF ~has_user_id THEN Response(400, <<>>, NoStats)
              ELSE IF loader.user_ids = None THEN Response(500, <<>>, NoStats)
              ELSE IF \A i \in DOMAIN ValueOf(loader.user_ids) :
                         ValueOf(loader.user_ids)[i] # user_id
                   THEN Response(404, <<>>, NoStats)
              ELSE Response(200, recommend(user_id, ValueOf(loader.df_ratings), n), NoStats)]
    /\ UNCHANGED <<recommenderVars, source, loader>>

\* users.py, lines 35-59, after load_data returned: df_user_stats, cut to
\* its first `limit` rows when limit is given (0 here: not given); None has
\* no to_dict (500).
ServeUsers(t, limit) ==
    /\ threads[t].pc = "loaded"
    /\ threads[t].handler = "users"
    /\ threads' = [threads EXCEPT
          ![t].pc = "respond",
          ![t].response =
              IF loader.df_user_stats = None THEN Response(500, <<>>, NoStats)
              ELSE LET df_stats == ValueOf(loader.df_user_stats)
                   IN  Response(200,
                                IF limit = 0 THEN df_stats
                                ELSE SubSeq(df_stats, 1, Min(limit, Len(df_stats))),
                                NoStats)]
    /\ UNCHANGED <<recommenderVars, source, loader>>

\* health.py, line 18: is_loaded = data_loader.cb_model is not None
HealthCheck(t) ==
    /\ threads[t].pc = "health_check"
    /\ threads' = [threads EXCEPT ![t].pc = "health_stats",
                                  ![t].is_loaded = loader.cb_model # None]
    /\ UNCHANGED <<recommenderVars, source, loader>>

\* len(attribute) if is_loaded and the attribute is set (and, for user_ids,
\* not empty) else 0
CountOf(is_loaded, attribute) ==
    IF is_loaded /\ attribute # None THEN Len(ValueOf(attribute)) ELSE 0

\* health.py, lines 21-32
HealthStats(t) ==
    /\ threads[t].pc = "health_stats"
    /\ threads' = [threads EXCEPT
          ![t].pc = "respond",
          ![t].response =
              Response(200, <<>>,
                       [data_loaded |-> threads[t].is_loaded,
                        total_users |-> CountOf(threads[t].is_loaded, loader.user_ids),
                        total_articles |-> CountOf(threads[t].is_loaded, loader.df_articles),
                        total_ratings |-> CountOf(threads[t].is_loaded, loader.df_ratings)])]
    /\ UNCHANGED <<recommenderVars, source, loader>>

\* The response is sent; the thread is free for the next request.
SendResponse(t) ==
    /\ threads[t].pc = "respond"
    /\ threads' = [threads EXCEPT ![t] = IdleThread]
    /\ UNCHANGED <<recommenderVars, source, loader>>

\* One step of the request thread t.
ThreadStep(t) ==
    \/ \E handler \in {"recommend", "users", "health"} : Request(t, handler)
    \/ LoadCheck(t)
    \/ LoadBodySucceeds(t)
    \/ \E exception \in {"ValueError", "Exception"} : LoadBodyRaises(t, exception)
    \/ StoreCbModel(t)
    \/ StoreDfRatings(t)
    \/ StoreDfArticles(t)
    \/ StoreDfUserStats(t)
    \/ StoreUserIds(t)
    \/ StoreUserIdsRaises(t)
    \/ LoadRaised(t)
    \/ \E has_user_id \in BOOLEAN, user_id \in RequestUserIds, n \in RequestNs :
          ServeRecommend(t, has_user_id, user_id, n)
    \/ \E limit \in RequestLimits : ServeUsers(t, limit)
    \/ HealthCheck(t)
    \/ HealthStats(t)
    \/ SendResponse(t)

\* The requests of a process served one after the other, on one thread.
NextLoader == ThreadStep(1)

SpecLoader == InitLoader /\ [][NextLoader]_vars

\* The requests of a process served on the threads of the worker's pool.
NextLoaderThreads == \E t \in Threads : ThreadStep(t)

SpecLoaderThreads == InitLoader /\ [][NextLoaderThreads]_vars

----------------------------------------------------------------------------
(* Vocabulary of the properties *)

Called == result.fn # "none"
OutIds == [k \in DOMAIN result.out |-> result.out[k][1]]
OutScores == [k \in DOMAIN result.out |-> result.out[k][2]]
OutIdSet == {result.out[k][1] : k \in DOMAIN result.out}

HasProfile(u) == u \in DOMAIN user_profiles
ProfileVector(u) == user_profiles[u].vector.num
TableIds == {article_ids[i] : i \in DOMAIN article_ids}

\* Position of an article in the table order.
Position(a) == CHOOSE i \in DOMAIN article_ids : article_ids[i] = a

\* The article's own embedding row.
OwnVector(a) == embeddings[article_indices[a]]

\* The exclusion set of the caller: the articles the user's rows name.
Excluded(u) == UserArticles(df_ratings, u)

\* Cosine similarity is defined when neither norm is zero.
SimilarityDefined(u, a) == Norm2(ProfileVector(u)) > 0 /\ Norm2(OwnVector(a)) > 0
OwnCosine(u, a) == Cosine(ProfileVector(u), OwnVector(a))

\* The candidates: table articles outside the exclusion set whose
\* similarity to the profile is defined.
Candidates(u) == {a \in TableIds \ Excluded(u) : SimilarityDefined(u, a)}

\* All rows of user u in the frame name unindexed articles.
OnlyUnindexedRows(ratings_df, u) ==
    /\ u \in UsersOf(ratings_df)
    /\ \A k \in DOMAIN ratings_df :
          ratings_df[k].user_id = u => ~IsIndexed(ratings_df[k].article_id)

----------------------------------------------------------------------------
(* C1 *)

\* C1 (general part): recommend returns non-excluded table articles in
\* descending order of score, each paired with the cosine similarity of the
\* profile and that article's own embedding row, and no candidate left out
\* scores higher than one returned.
C1_General ==
    (result.fn = "recommend" /\ HasProfile(result.user_id) /\ result.n >= 0) =>
        LET u == result.user_id IN
        /\ \A k \in DOMAIN result.out : OutIds[k] \in TableIds \ Excluded(u)
        /\ \A k \in DOMAIN result.out :
              (OutIds[k] \in TableIds /\ SimilarityDefined(u, OutIds[k]))
                 => OutScores[k] = OwnCosine(u, OutIds[k])
        /\ \A p, q \in DOMAIN result.out : p < q => ~ScoreLess(OutScores[p], OutScores[q])
        /\ \A a \in Candidates(u) \ OutIdSet : \A k \in DOMAIN result.out :
              ~ScoreLess(OutScores[k], OwnCosine(u, a))

\* C1 (Scenario 2): with the table A1..A4 and U's ratings A1:3, A2:1,
\* recommend(U, 2) returns A3 (cosine sqrt(4/5) = 0.894) then A4 (cosine
\* -sqrt(9/10) = -0.949).
C1_Scenario2 ==
    (/\ article_ids = Scenario2Table
     /\ df_ratings = Scenario2Ratings
     /\ DOMAIN user_profiles = {1}
     /\ result.fn = "recommend" /\ result.user_id = 1 /\ result.n = 2) =>
        result.out = << <<3, [sgn |-> 1, num |-> 4, den |-> 5]>>,
                        <<4, [sgn |-> -1, num |-> 9, den |-> 10]>> >>

\* C1: recommend returns the non-excluded articles in descending order of
\* cosine similarity, each with the cosine of its own embedding row, and in
\* Scenario 2 recommend(U, 2) returns A3 then A4.
C1_RanksByOwnCosine == C1_General /\ C1_Scenario2

----------------------------------------------------------------------------
(* C2 *)

\* C2: for a user with a profile and n >= 0, recommend returns
\* min(n, number of candidates) entries; none for n = 0, and every candidate
\* when n is at least their number.
C2_LengthIsMinOfNAndCandidates ==
    (result.fn = "recommend" /\ HasProfile(result.user_id) /\ result.n >= 0) =>
        LET c == Candidates(result.user_id) IN
        /\ Len(result.out) = Min(result.n, Cardinality(c))
        /\ result.n = 0 => result.out = <<>>
        /\ result.n >= Cardinality(c) => OutIdSet = c

----------------------------------------------------------------------------
(* C3 *)

\* C3: on the same model state, user, ratings and n, recommend and
\* recommend_low_memory return the same ordered list of ids with equal
\* scores.
C3_BatchedEqualsLowMemory ==
    /\ result.fn = "recommend" =>
          result.out = recommend_low_memory(result.user_id, df_ratings, result.n)
    /\ result.fn = "recommend_low_memory" =>
          result.out = recommend(result.user_id, df_ratings, result.n)

----------------------------------------------------------------------------
(* C4 *)

\* C4: no article of the user's exclusion set (the articles named by the
\* user's rows of the ratings) appears in the output of recommend or of
\* recommend_low_memory; for recommend, whatever the batch size.
C4_NoExcludedArticleReturned ==
    /\ Called => \A k \in DOMAIN result.out : OutIds[k] \notin Excluded(result.user_id)
    /\ result.fn = "recommend" =>
          \A b \in 1..MaxBatch :
              LET out == RecommendBatched(result.user_id, df_ratings, result.n, b)
              IN  \A k \in DOMAIN out : out[k][1] \notin Excluded(result.user_id)

\* recommend has returned something to a user part of whose exclusion set
\* lies in the table.
C4_Witness ==
    /\ result.fn = "recommend"
    /\ result.out # <<>>
    /\ Excluded(result.user_id) \cap TableIds # {}

----------------------------------------------------------------------------
(* C5 *)

\* C5: for every n <= 0, recommend and recommend_low_memory return the
\* empty list.
C5_NonPositiveNYieldsEmpty ==
    (Called /\ result.n <= 0) => result.out = <<>>

----------------------------------------------------------------------------
(* C6 *)

\* C6: recommend returns no article whose embedding has zero norm, and
\* returns nothing at all to a user whose profile vector has zero norm.
C6_UndefinedSimilarityExcluded ==
    (result.fn = "recommend" /\ HasProfile(result.user_id)) =>
        /\ \A k \in DOMAIN result.out :
              OutIds[k] \in TableIds => Norm2(OwnVector(OutIds[k])) > 0
        /\ Norm2(ProfileVector(result.user_id)) = 0 => result.out = <<>>

----------------------------------------------------------------------------
(* C7 *)

\* Entries of out with equal score are in ascending table position.
TiesInTableOrder(out) ==
    \A p, q \in DOMAIN out :
        (p < q /\ out[p][2] = out[q][2]) => Position(out[p][1]) < Position(out[q][1])

\* C7: two returned entries with equal score appear in ascending order of
\* their articles' positions in the table's article_ids list (for
\* recommend, whatever the batch size).
C7_TiesInTableOrder ==
    /\ Called => TiesInTableOrder(result.out)
    /\ result.fn = "recommend" =>
          \A b \in 1..MaxBatch :
              TiesInTableOrder(RecommendBatched(result.user_id, df_ratings, result.n, b))

\* recommend has returned two entries with the same score.
C7_Witness ==
    /\ result.fn = "recommend"
    /\ \E p, q \in DOMAIN result.out : p < q /\ OutScores[p] = OutScores[q]

----------------------------------------------------------------------------
(* C8 *)

\* C8: the output of the batched recommend is the same for every batch
\* size >= 1, the one the code uses included.
C8_BatchSizeInvariant ==
    result.fn = "recommend" =>
        \A b \in 1..MaxBatch :
            RecommendBatched(result.user_id, df_ratings, result.n, b) = result.out

----------------------------------------------------------------------------
(* C9 *)

\* C9: after any sequence of fits the users holding a profile are exactly
\* the users of the ratings of the last fit, and recommend returns [] to
\* every other user.
C9_ProfilesAreThoseOfLastFit ==
    fitted =>
        /\ DOMAIN user_profiles = UsersOf(df_ratings)
        /\ (Called /\ result.user_id \notin UsersOf(df_ratings)) => result.out = <<>>

----------------------------------------------------------------------------
(* C10 *)

\* C10 as stated: after fit, a user has a profile iff at least one of the
\* user's rows names an article of the embedding table.
C10_ProfileIffIndexedRating ==
    fitted =>
        \A u \in UserIds :
            HasProfile(u) <=>
                \E k \in DOMAIN df_ratings :
                    df_ratings[k].user_id = u /\ IsIndexed(df_ratings[k].article_id)

\* C10 as amended: a fit stores a profile for exactly the users that have
\* a row in the ratings passed to it, indexed or not, next to the entries it
\* found; a user all of whose rows name unindexed articles gets the zero
\* vector and no article weights.
C10_ProfileIffRated ==
    [][(fitted' /\ result.fn = "none" /\ result'.fn = "none") =>
          /\ DOMAIN user_profiles' = DOMAIN user_profiles \cup UsersOf(df_ratings')
          /\ \A u \in UserIds :
                OnlyUnindexedRows(df_ratings', u) =>
                    /\ user_profiles'[u].vector.num = ZeroVector
                    /\ user_profiles'[u].article_weights = EmptyWeights]_vars

\* A fit has stored a zero-vector profile for a user whose rows all name
\* unindexed articles.
C10_Witness ==
    /\ fitted
    /\ \E u \in UserIds :
          /\ OnlyUnindexedRows(df_ratings, u)
          /\ HasProfile(u)
          /\ ProfileVector(u) = ZeroVector

----------------------------------------------------------------------------
(* C11 *)

\* The rows of user u that name an article of the table.
IndexedRowsOf(ratings_df, u) ==
    {k \in DOMAIN ratings_df :
        ratings_df[k].user_id = u /\ ratings_df[k].article_id \in TableIds}

\* Sum of the ratings of the rows in the set rows.
RECURSIVE RatingSum(_, _)
RatingSum(ratings_df, rows) ==
    IF rows = {} THEN 0
    ELSE LET k == CHOOSE x \in rows : TRUE
         IN  ratings_df[k].rating + RatingSum(ratings_df, rows \ {k})

\* Component i of the sum of rating * embedding(article) over the rows in
\* the set rows.
RECURSIVE WeightedSum(_, _, _)
WeightedSum(ratings_df, rows, i) ==
    IF rows = {} THEN 0
    ELSE LET k == CHOOSE x \in rows : TRUE
         IN  ratings_df[k].rating * OwnVector(ratings_df[k].article_id)[i]
                + WeightedSum(ratings_df, rows \ {k}, i)

\* The stored vector of u is the weighted sum divided by the total weight,
\* and the zero vector when the total weight is zero.
ProfileIsWeightedMean(u) ==
    LET rows == IndexedRowsOf(df_ratings, u)
        w == RatingSum(df_ratings, rows)
        v == user_profiles[u].vector
    IN  /\ Len(v.num) = Dim
        /\ v.den > 0
        /\ \A i \in 1..Dim :
              IF w = 0 THEN v.num[i] = 0
              ELSE v.num[i] * w = WeightedSum(df_ratings, rows, i) * v.den

\* C11: after fit, the profile vector of each user of the ratings is the
\* sum of rating * embedding over the user's rows that name a table article,
\* divided by the sum of those ratings; rows naming unindexed articles count
\* in neither sum; the vector is zero when the total weight is zero; in
\* Scenario 2 the profile of U is [3/4, 1/4].
C11_ProfileIsWeightedMean ==
    fitted =>
        /\ \A u \in UsersOf(df_ratings) : HasProfile(u) /\ ProfileIsWeightedMean(u)
        /\ (article_ids = Scenario2Table /\ df_ratings = Scenario2Ratings) =>
              LET v == user_profiles[1].vector
              IN  4 * v.num[1] = 3 * v.den /\ 4 * v.num[2] = 1 * v.den

\* A fit has built a profile from two indexed rows with different ratings
\* and different embeddings, in a frame that also holds a row naming an
\* unindexed article.
C11_Witness ==
    /\ fitted
    /\ \E k \in DOMAIN df_ratings : df_ratings[k].article_id \notin TableIds
    /\ \E u \in UsersOf(df_ratings) :
          \E j, k \in IndexedRowsOf(df_ratings, u) :
              /\ df_ratings[j].rating # df_ratings[k].rating
              /\ OwnVector(df_ratings[j].article_id) # OwnVector(df_ratings[k].article_id)
              /\ user_profiles[u].vector.den = df_ratings[j].rating + df_ratings[k].rating

----------------------------------------------------------------------------
(* C12 *)

\* The interactions of the clicks with a numeric engagement measure.
NumericRows(df_clicks) == {k \in DOMAIN df_clicks : df_clicks[k].session_size.numeric}

\* The r-th smallest measure of the numeric interactions, by counting.
OrderStatistic(df_clicks, r) ==
    LET rows == NumericRows(df_clicks)
        measure(k) == df_clicks[k].session_size.value
    IN  CHOOSE v \in {measure(k) : k \in rows} :
            /\ Cardinality({k \in rows : measure(k) < v}) < r
            /\ r <= Cardinality({k \in rows : measure(k) <= v})

\* The percentile 25 * quarters of log_measure over the whole interaction
\* set, linearly interpolated between the order statistics around it.
Percentile(df_clicks, quarters) ==
    LET n == Cardinality(NumericRows(df_clicks))
        h4 == (n - 1) * quarters
        lo == 1 + (h4 \div 4)
    IN  [a |-> OrderStatistic(df_clicks, lo),
         b |-> OrderStatistic(df_clicks, Min(lo + 1, n)),
         k |-> h4 % 4]

\* log_measure > p, for the measure m
LogAbove(m, p) == Pow(1 + m, 4) > Pow(1 + p.a, 4 - p.k) * Pow(1 + p.b, p.k)

\* The interaction the j-th emitted rating comes from: the j-th numeric one.
RatedInteraction(df_clicks, j) ==
    CHOOSE k \in NumericRows(df_clicks) :
        Cardinality({i \in NumericRows(df_clicks) : i <= k}) = j

\* C12: _prepare_ratings emits one rating in {1,2,3} for every interaction
\* with a numeric engagement measure, in order, and none for the others;
\* the rating is 1 iff log_measure <= p25, 3 iff log_measure > p75 and 2
\* otherwise, p25 and p75 being the percentiles over the whole interaction
\* set; the measures 0,0,1,1,3,7,15,31 get the ratings 1,1,2,2,2,2,3,3.
C12_RatingsByGlobalPercentiles ==
    result.fn = "_prepare_ratings" =>
        LET df_clicks == source.clicks
            out == result.out
        IN  /\ Len(out) = Cardinality(NumericRows(df_clicks))
            /\ \A j \in DOMAIN out :
                  LET row == df_clicks[RatedInteraction(df_clicks, j)]
                      m == row.session_size.value
                  IN  /\ out[j].user_id = row.user_id
                      /\ out[j].article_id = row.article_id
                      /\ out[j].rating \in {1, 2, 3}
                      /\ out[j].rating = 1 <=> ~LogAbove(m, Percentile(df_clicks, 1))
                      /\ out[j].rating = 3 <=> LogAbove(m, Percentile(df_clicks, 3))
            /\ df_clicks = Scenario1Clicks =>
                  [j \in DOMAIN out |-> out[j].rating] = <<1, 1, 2, 2, 2, 2, 3, 3>>

\* _prepare_ratings has dropped a non-numeric interaction and has rated two
\* interactions of different users, one 1 and one 3.
C12_Witness ==
    /\ result.fn = "_prepare_ratings"
    /\ NumericRows(source.clicks) # DOMAIN source.clicks
    /\ \E i, j \in DOMAIN result.out :
          /\ result.out[i].rating = 1
          /\ result.out[j].rating = 3
          /\ result.out[j].user_id # result.out[i].user_id

----------------------------------------------------------------------------
(* Vocabulary of the loader properties *)

\* The article ids of the raw embeddings source, one per row.
SourceArticleIds ==
    IF source.embeddings.shape \in {"dict", "frame"} THEN source.embeddings.ids
    ELSE source.articles

HasDuplicateArticleId ==
    \E i, j \in DOMAIN SourceArticleIds : i < j /\ SourceArticleIds[i] = SourceArticleIds[j]

\* Every attribute load_data stores is set.
FullyLoaded ==
    /\ loader.cb_model # None
    /\ loader.df_ratings # None
    /\ loader.df_articles # None
    /\ loader.df_user_stats # None
    /\ loader.user_ids # None

\* The thread is inside the body of load_data, past the test of line 36.
InLoadBody(t) == threads[t].pc \in {"load_body"} \cup StorePcs

\* The thread has seen cb_model set: load_data has returned to its handler,
\* or its health handler has read is_loaded = True.
ObservedLoaded(t) ==
    \/ threads[t].pc = "loaded"
    \/ threads[t].pc = "health_stats" /\ threads[t].is_loaded

\* The health handler of thread t has its response ready.
HealthResponded(t) == threads[t].handler = "health" /\ threads[t].pc = "respond"

----------------------------------------------------------------------------
(* C13 *)

\* C13: when two rows of the raw embeddings source carry the same article
\* id, the load is aborted: no load body runs to its end, no recommender is
\* fitted on a table built from that source, and nothing is published.
C13_DuplicateIdAbortsLoad ==
    HasDuplicateArticleId =>
        /\ ~fitted
        /\ loader = NotLoaded
        /\ \A t \in Threads : threads[t].pc \notin StorePcs \cup {"loaded"}

----------------------------------------------------------------------------
(* C14 *)

\* C14: whenever a thread has observed cb_model as not None, df_ratings,
\* df_articles, df_user_stats and user_ids are set too.
C14_PublishedAtomically ==
    \A t \in Threads : ObservedLoaded(t) => FullyLoaded

----------------------------------------------------------------------------
(* C15 *)

\* C15: the load body is executed by a single initializer: no two calls are
\* inside it at once, and no call is on its way through it once a model has
\* been published.
C15_SingleInitializer ==
    /\ \A t, u \in Threads : (InLoadBody(t) /\ InLoadBody(u)) => t = u
    /\ \A t \in Threads : threads[t].pc = "load_body" => loader.cb_model = None

----------------------------------------------------------------------------
(* C16 *)

\* C16: when load_data raises, whatever the step that failed, cb_model,
\* df_ratings, df_articles, df_user_stats and user_ids are all still unset
\* (requests served one after the other), so that the next call finds
\* cb_model None and loads again.
C16_FailedLoadLeavesUnset ==
    \A t \in Threads : threads[t].pc = "raised" => loader = NotLoaded

----------------------------------------------------------------------------
(* C17 *)

\* The counts of a loaded model.
LoadedStats ==
    [data_loaded |-> TRUE,
     total_users |-> Len(ValueOf(loader.user_ids)),
     total_articles |-> Len(ValueOf(loader.df_articles)),
     total_ratings |-> Len(ValueOf(loader.df_ratings))]

\* C17: a health request never enters load_data; with requests served one
\* after the other, it reports data_loaded = false and three counts of 0 as
\* long as no load has succeeded (user_ids, stored last, is still None), and
\* the counts of users, articles and ratings once one has.
C17_HealthReportsLoadState ==
    \A t \in Threads :
        /\ threads[t].handler = "health" =>
              threads[t].pc \in {"health_check", "health_stats", "respond"}
        /\ HealthResponded(t) =>
              /\ threads[t].response.status = 200
              /\ loader.user_ids = None => threads[t].response.stats = NoStats
              /\ FullyLoaded => threads[t].response.stats = LoadedStats

====
